---- MODULE Spec2Model ----
(***************************************************************************)
(* Battle orchestration engine of src/battle.py: the start endpoint        *)
(* (start_battle), the per-battle phase loop (run_battle_sequence), the    *)
(* process-local registry (active_battles) and the persisted status row    *)
(* (battle_schedule.status).                                               *)
(*                                                                         *)
(* Scheduling.  Both coroutines run on one asyncio event loop and every    *)
(* store call and every broadcast is a blocking call, so the code between  *)
(* two `await`s runs without interleaving.  One action of the model is one *)
(* such stretch of code; what it does, in program order, is appended to    *)
(* the battle's trace.                                                     *)
(***************************************************************************)
EXTENDS Integers, Sequences, FiniteSets, TLC

\* ---------------------------------------------------------------- bounds
MaxK == 2          \* questions per battle
MaxKExt == 1       \* questions per battle when other writers are modelled
MaxRequests == 2   \* start requests, all battles together
MaxFaults == 1     \* store failures, restarts and external writes together
MaxTime == 60      \* seconds the clock runs for, when time is tracked

\* ------------------------------------------------------ program constants
GraceSecs == 5
QuestionSecs == 20
StatsSecs == 10
LeaderboardSecs == 10

\* Battle ids.
Battles == {1, 2}

VARIABLES
    status,          \* battle_schedule.status of every battle (persisted)
    active_battles,  \* the registry: set of battle ids
    total,           \* number of questions the store holds for every battle
    grace,           \* start_battle calls suspended in asyncio.sleep(5), per battle
    runs,            \* run_battle_sequence tasks of every battle, in spawn order
    trace,           \* per battle: what the program did, in program order
    requests,        \* start requests received so far
    faults,          \* store failures, restarts and external writes so far
    config,          \* which of the environment's secrets are set
    net,             \* how the realtime endpoint answers a broadcast call
    wire,            \* the broadcast calls made so far: last result, last token
    outbox,          \* per battle, the body of the last broadcast call
    now,             \* the clock, in seconds
    timer            \* per battle and task: when its sleep ends, when it last published

corevars == <<status, active_battles, total, grace, runs, trace, requests, faults>>
vars == <<status, active_battles, total, grace, runs, trace, requests, faults, config, net, wire,
          outbox, now, timer>>

\* ------------------------------------------------------------ trace items
E(op, a, run, n) == [op |-> op, a |-> a, run |-> run, n |-> n]

Request == E("request", "", 0, 0)
Return(outcome) == E("return", outcome, 0, 0)
Store(name, n) == E("store", name, 0, n)
Raise(name) == E("raise", name, 0, 0)
Update(value) == E("update", value, 0, 0)
RegisterOp == E("register", "", 0, 0)
DiscardOp(r) == E("discard", "", r, 0)
SpawnOp(r) == E("spawn", "", r, 0)
Sleep(r, secs) == E("sleep", "", r, secs)
RestartOp == E("restart", "", 0, 0)
ExternalOp(value) == E("external", value, 0, 0)

\* broadcast_event(battle_id, event, payload): one publish call; its result is
\* not used by any caller.  n is the mcq_id the payload is about (0: none).
Publish(event, r, n) == E("publish", event, r, n)

\* Publish items the step appends to the trace of b.
Sent(b) ==
    Cardinality({i \in (Len(trace[b]) + 1)..Len(trace'[b]) : trace'[b][i].op = "publish"})

\* ---------------------------------------------------------------- time
\* The clock moves in steps of the shortest wait of the program.
TickSecs == GraceSecs

\* The clock value that stands for "time is not tracked": every sleep is over
\* by the time the next step is taken.
Forever == MaxTime + QuestionSecs + TickSecs

\* Task 0 of a battle is the start_battle call in its grace sleep; the others
\* are its run_battle_sequence tasks.
TaskIds == 0..MaxRequests

\* await asyncio.sleep(secs), called now: the time at which it is over.
After(secs) == IF now = Forever THEN Forever ELSE now + secs

\* A task goes on only once its own sleep is over.
DueBlocking(b, r) == \A c \in Battles : \A q \in TaskIds : now >= timer[c][q].wake
Due(b, r) == now >= timer[b][r].wake

\* What a step of battle b does to the timers: a task that went to sleep
\* wakes `secs` later; a task that published did so now.
Paced(b) ==
    /\ LET new == (Len(trace[b]) + 1)..Len(trace'[b])
           slept == {i \in new : trace'[b][i].op = "sleep"}
           sent == {i \in new : trace'[b][i].op = "publish"}
       IN timer' = [timer EXCEPT ![b] =
                       [r \in TaskIds |->
                           LET naps == {i \in slept : trace'[b][i].run = r}
                           IN [wake |-> IF naps = {} THEN timer[b][r].wake
                                        ELSE After(trace'[b][CHOOSE i \in naps : TRUE].n),
                               at |-> IF \E i \in sent : trace'[b][i].run = r
                                      THEN now ELSE timer[b][r].at]]]
    /\ now' = now

\* ------------------------------------------------- token and broadcast
TokenTtl == 60

\* Module setup: create_client refuses a missing service key, so the process
\* only comes up when SUPABASE_SERVICE_ROLE_KEY is set.
Started == config.service_key

\* A token: `minted` is the number of the broadcast call that made it (0: it
\* was not made by a call), `ttl` the seconds from minting to its expiry.
Jwt(call) ==
    [kind |-> "jwt", aud |-> "realtime", role |-> "service_role", ttl |-> TokenTtl,
     minted |-> call]
ServiceKey == [kind |-> "service_key", aud |-> "", role |-> "service_role", ttl |-> 0, minted |-> 0]
NoToken == [kind |-> "none", aud |-> "", role |-> "", ttl |-> 0, minted |-> 0]

\* get_realtime_jwt() inside broadcast call number `call`: jwt.encode raises
\* without SUPABASE_JWT_SECRET and the except clause returns the service key
\* instead.
get_realtime_jwt(cfg, call) == IF cfg.jwt_secret THEN Jwt(call) ELSE ServiceKey

\* The body broadcast_event posts.
Topic(b) == <<"battle:", b>>

BodyEventInType(b, event, payload) ==
    [messages |-> <<[topic |-> Topic(b), event |-> event,
                     payload |-> [type |-> event, data |-> payload]]>>]
Body(b, event, payload) ==
    [messages |-> <<[topic |-> Topic(b), event |-> "broadcast",
                     payload |-> [type |-> event, data |-> payload]]>>]

NoBody == [messages |-> <<>>]

\* What requests.post can come back with: a response, or an exception.
Response(code) == [kind |-> "response", status_code |-> code]
Timeout == [kind |-> "timeout", status_code |-> 0]
ConnectionError == [kind |-> "connection_error", status_code |-> 0]
Responses == {Response(200), Response(202), Response(302), Response(500), Timeout,
              ConnectionError}

\* requests.Response.ok
ResponseOk(code) == ~(400 <= code /\ code < 600)

\* The value broadcast_event returns: res.ok, or False from the except clause.
broadcast_event(answer) ==
    IF answer.kind = "response" THEN ResponseOk(answer.status_code) ELSE FALSE

\* Every caller drops the value broadcast_event returns: control goes on to
\* `next` whatever it is.
AfterPublishRaises(ok, next) == IF ok THEN next ELSE "failed"
AfterPublish(ok, next) == next

\* The broadcast calls of a step of battle b, seen from outside.
Wire(b) ==
    /\ LET new == (Len(trace[b]) + 1)..Len(trace'[b])
           sent == {i \in new : trace'[b][i].op = "publish"}
           n == Cardinality(sent)
           ok == broadcast_event(net)
       IN IF n = 0
          THEN UNCHANGED <<wire, outbox>>
          ELSE /\ wire' = [returned |-> ok,
                           token |-> get_realtime_jwt(config, wire.calls + n),
                           calls |-> wire.calls + n,
                           failed |-> wire.failed + (IF ok THEN 0 ELSE n)]
               /\ LET last == trace'[b][CHOOSE i \in sent : \A j \in sent : j <= i]
                  IN outbox' = [outbox EXCEPT ![b] = Body(b, last.a, last.n)]
    /\ UNCHANGED <<config, net>>

Quiet == UNCHANGED <<config, net, wire, outbox, now, timer>>

\* ------------------------------------------------------------- the store
\* Questions of battle b: the i-th has sequence position 10*i.
ReactOrder(i) == 10 * i
McqId(b, i) == 100 * b + i
Question(b, i) == [mcq_id |-> McqId(b, i), react_order |-> ReactOrder(i), total_mcqs |-> total[b]]

get_first_mcq(b) == IF total[b] = 0 THEN <<>> ELSE <<Question(b, 1)>>

get_next_mcq(b, react_order) ==
    LET later == {i \in 1..total[b] : ReactOrder(i) > react_order}
    IN IF later = {} THEN <<>>
       ELSE <<Question(b, CHOOSE i \in later : \A j \in later : i <= j)>>

\* ---------------------------------------------------------- start_battle
NoStatus == ""
Lower(s) ==
    CASE s = "Active" -> "active"
      [] s = "Completed" -> "completed"
      [] s = "Pending" -> "pending"
      [] s = "Scheduled" -> "scheduled"
      [] OTHER -> s

Truthy(s) == s # NoStatus

RegisterMut(reg, b) == reg
Register(reg, b) == reg \cup {b}
Discard(reg, b) == reg \ {b}

IsResumeMut(current_status, b, reg) ==
    Truthy(current_status) /\ current_status = "active" /\ b \in reg

IsResume(current_status, b, reg) ==
    Truthy(current_status) /\ Lower(current_status) = "active" /\ b \in reg

IsZombie(current_status, b, reg) ==
    Truthy(current_status) /\ Lower(current_status) = "active" /\ b \notin reg

IsCompleted(current_status) ==
    Truthy(current_status) /\ Lower(current_status) = "completed"

DecideNoRegistry(current_status, b, reg) ==
    IF Truthy(current_status) /\ Lower(current_status) = "active" THEN "zombie"
    ELSE IF IsCompleted(current_status) THEN "completed"
    ELSE "fresh"

DecideNoCompleted(current_status, b, reg) ==
    IF IsResume(current_status, b, reg) THEN "resume"
    ELSE IF IsZombie(current_status, b, reg) THEN "zombie"
    ELSE "fresh"

\* The if-chain of start_battle, in its order.
Decide(current_status, b, reg) ==
    IF IsResume(current_status, b, reg) THEN "resume"
    ELSE IF IsZombie(current_status, b, reg) THEN "zombie"
    ELSE IF IsCompleted(current_status) THEN "completed"
    ELSE "fresh"

\* Every run is spawned by a start request.
RunIds == 1..MaxRequests

Spawned(b) == Len(runs[b])
NewRun == [pc |-> "spawned", current |-> <<>>, end |-> "none"]

Prelude(b) == <<Request, Store("fetch_participants", b), Store("fetch_status", b)>>

\* A store call of start_battle raises: the except clause turns it into HTTP 500.
StartFails(b) ==
    /\ Started
    /\ Quiet
    /\ requests < MaxRequests
    /\ faults < MaxFaults
    /\ \E tr \in { <<Request, Raise("fetch_participants"), Return("error")>>,
                   <<Request, Store("fetch_participants", b), Raise("fetch_status"),
                     Return("error")>> } :
          trace' = [trace EXCEPT ![b] = @ \o tr]
    /\ requests' = requests + 1
    /\ faults' = faults + 1
    /\ UNCHANGED <<status, active_battles, total, grace, runs>>

StartResumeCore(b, ok) ==
    /\ requests < MaxRequests
    /\ Decide(status[b], b, active_battles) = "resume"
    /\ trace' = [trace EXCEPT ![b] = @ \o Prelude(b) \o
                    <<Publish("battle_resume", 0, 0), Return(AfterPublish(ok, "accepted"))>>]
    /\ requests' = requests + 1
    /\ UNCHANGED <<status, active_battles, total, grace, runs, faults>>

StartResume(b) == Started /\ StartResumeCore(b, broadcast_event(net)) /\ Wire(b) /\ Paced(b)

StartZombieCore(b, ok) ==
    /\ requests < MaxRequests
    /\ Decide(status[b], b, active_battles) = "zombie"
    /\ active_battles' = Register(active_battles, b)
    /\ runs' = [runs EXCEPT ![b] = Append(@, NewRun)]
    /\ trace' = [trace EXCEPT ![b] = @ \o Prelude(b) \o
                    <<RegisterOp, SpawnOp(Spawned(b) + 1),
                      Publish("battle_resume", 0, 0), Return(AfterPublish(ok, "accepted"))>>]
    /\ requests' = requests + 1
    /\ UNCHANGED <<status, total, grace, faults>>

StartZombie(b) == Started /\ StartZombieCore(b, broadcast_event(net)) /\ Wire(b) /\ Paced(b)

StartCompleted(b) ==
    /\ Started
    /\ Quiet
    /\ requests < MaxRequests
    /\ Decide(status[b], b, active_battles) = "completed"
    /\ trace' = [trace EXCEPT ![b] = @ \o Prelude(b) \o <<Return("rejected")>>]
    /\ requests' = requests + 1
    /\ UNCHANGED <<status, active_battles, total, grace, runs, faults>>

FreshStatusUnset == "Pending"
FreshStatus == "Active"

RegisterAfterGrace(reg, b) == reg
\* active_battles.add before the grace window.
RegisterBeforeGrace(reg, b) == Register(reg, b)

FreshStartOpsMut == <<Publish("battle_start_pending", 0, 0), Update(FreshStatus), RegisterOp,
                      Sleep(0, GraceSecs)>>
\* What a fresh start does after reading the status, up to the sleep.
FreshStartOps == <<Update(FreshStatus), RegisterOp, Publish("battle_start_pending", 0, 0),
                   Sleep(0, GraceSecs)>>

\* The registry when the status write of a fresh start raises: the write
\* comes before active_battles.add.
RegistryAtFailureAdded(reg, b) == reg \cup {b}
RegistryAtFailure(reg, b) == reg

\* Fresh start up to `await asyncio.sleep(5)`.
StartFreshCore(b, ok) ==
    /\ requests < MaxRequests
    /\ Decide(status[b], b, active_battles) = "fresh"
    /\ \/ /\ status' = [status EXCEPT ![b] = FreshStatus]
          /\ active_battles' = RegisterBeforeGrace(active_battles, b)
          /\ grace' = [grace EXCEPT ![b] = @ + 1]
          /\ trace' = [trace EXCEPT ![b] = @ \o Prelude(b) \o FreshStartOps]
          /\ UNCHANGED faults
       \/ /\ faults < MaxFaults
          /\ trace' = [trace EXCEPT ![b] = @ \o Prelude(b) \o
                          <<Raise("update_status"), Return("error")>>]
          /\ faults' = faults + 1
          /\ active_battles' = RegistryAtFailure(active_battles, b)
          /\ UNCHANGED <<status, grace>>
    /\ requests' = requests + 1
    /\ UNCHANGED <<total, runs>>

StartFresh(b) == Started /\ StartFreshCore(b, broadcast_event(net)) /\ Wire(b) /\ Paced(b)

\* Fresh start after the sleep: battle_start, add_task, return.
StartFreshLaunchCore(b, ok) ==
    /\ grace[b] > 0
    /\ grace' = [grace EXCEPT ![b] = @ - 1]
    /\ runs' = [runs EXCEPT ![b] = Append(@, NewRun)]
    /\ trace' = [trace EXCEPT ![b] = @ \o
                    <<Publish("battle_start", 0, 0), SpawnOp(Spawned(b) + 1),
                      Return(AfterPublish(ok, "accepted"))>>]
    /\ UNCHANGED <<status, active_battles, total, requests, faults>>

StartFreshLaunch(b) ==
    Started /\ Due(b, 0) /\ StartFreshLaunchCore(b, broadcast_event(net)) /\ Wire(b) /\ Paced(b)

\* --------------------------------------------------- run_battle_sequence
Running(b, r) == r \in DOMAIN runs[b] /\ runs[b][r].pc # "done"

\* The except/finally of run_battle_sequence: log, discard, task over.
Ended(run, how) == [run EXCEPT !.pc = "done", !.end = how]

FinallyMut(reg, b) == reg
FinallyClear(reg, b) == {}
Finally(reg, b) == Discard(reg, b)

\* An exception inside the try block: `name` is the store call that raised.
AbortCompletes(b, r, done, name) ==
    /\ faults < MaxFaults
    /\ status' = [status EXCEPT ![b] = "Completed"]
    /\ runs' = [runs EXCEPT ![b][r] = Ended(@, "aborted")]
    /\ active_battles' = Finally(active_battles, b)
    /\ trace' = [trace EXCEPT ![b] = @ \o done \o
                    <<Raise(name), E("update", "Completed", r, 0), DiscardOp(r)>>]
    /\ faults' = faults + 1
    /\ UNCHANGED <<total, grace, requests>>

AbortRetries(b, r, done, name) ==
    /\ faults < MaxFaults
    /\ trace' = [trace EXCEPT ![b] = @ \o done \o <<Raise(name)>>]
    /\ faults' = faults + 1
    /\ UNCHANGED <<status, active_battles, total, grace, runs, requests>>

Abort(b, r, done, name) ==
    /\ faults < MaxFaults
    /\ runs' = [runs EXCEPT ![b][r] = Ended(@, "aborted")]
    /\ active_battles' = Finally(active_battles, b)
    /\ trace' = [trace EXCEPT ![b] = @ \o done \o <<Raise(name), DiscardOp(r)>>]
    /\ faults' = faults + 1
    /\ UNCHANGED <<status, total, grace, requests>>

\* The task starts: get_first_mcq, then the first new_question, up to sleep(20).
OrchStartCore(b, r, ok) ==
    /\ Running(b, r)
    /\ runs[b][r].pc = "spawned"
    /\ LET current == get_first_mcq(b)
           fetched == <<E("store", "get_first_mcq", r, b)>>
       IN \/ Abort(b, r, <<>>, "get_first_mcq")
          \/ /\ current = <<>>
             /\ runs' = [runs EXCEPT ![b][r] = Ended(@, "noquestions")]
             /\ active_battles' = Finally(active_battles, b)
             /\ trace' = [trace EXCEPT ![b] = @ \o fetched \o
                             <<Publish("battle_end", r, 0), DiscardOp(r)>>]
             /\ UNCHANGED <<status, total, grace, requests, faults>>
          \/ /\ current # <<>>
             /\ runs' = [runs EXCEPT ![b][r] =
                            [@ EXCEPT !.pc = AfterPublish(ok, "question"), !.current = current]]
             /\ trace' = [trace EXCEPT ![b] = @ \o fetched \o
                             <<Publish("new_question", r, current[1].mcq_id),
                               Sleep(r, QuestionSecs)>>]
             /\ UNCHANGED <<status, active_battles, total, grace, requests, faults>>

OrchStart(b, r) ==
    Started /\ Due(b, r) /\ OrchStartCore(b, r, broadcast_event(net)) /\ Wire(b) /\ Paced(b)

StatsTargetMut(mcq) == mcq.react_order
\* The question whose statistics the stats phase fetches.
StatsTarget(mcq) == mcq.mcq_id

\* After sleep(20): get_battle_stats, show_stats, up to sleep(10).
OrchStatsCore(b, r, ok) ==
    /\ Running(b, r)
    /\ runs[b][r].pc = "question"
    /\ LET mcq_id == StatsTarget(runs[b][r].current[1])
       IN \/ Abort(b, r, <<>>, "get_battle_stats")
          \/ /\ runs' = [runs EXCEPT ![b][r].pc = AfterPublish(ok, "stats")]
             /\ trace' = [trace EXCEPT ![b] = @ \o
                             <<E("store", "get_battle_stats", r, mcq_id),
                               Publish("show_stats", r, mcq_id),
                               Sleep(r, StatsSecs)>>]
             /\ UNCHANGED <<status, active_battles, total, grace, requests, faults>>

OrchStats(b, r) ==
    Started /\ Due(b, r) /\ OrchStatsCore(b, r, broadcast_event(net)) /\ Wire(b) /\ Paced(b)

\* After sleep(10): get_leader_board, update_leaderboard, up to sleep(10).
OrchLeaderboardCore(b, r, ok) ==
    /\ Running(b, r)
    /\ runs[b][r].pc = "stats"
    /\ \/ Abort(b, r, <<>>, "get_leader_board")
       \/ /\ runs' = [runs EXCEPT ![b][r].pc = AfterPublish(ok, "leaderboard")]
          /\ trace' = [trace EXCEPT ![b] = @ \o
                          <<E("store", "get_leader_board", r, b),
                            Publish("update_leaderboard", r, runs[b][r].current[1].mcq_id),
                            Sleep(r, LeaderboardSecs)>>]
          /\ UNCHANGED <<status, active_battles, total, grace, requests, faults>>

OrchLeaderboard(b, r) ==
    Started /\ Due(b, r) /\ OrchLeaderboardCore(b, r, broadcast_event(net)) /\ Wire(b) /\ Paced(b)

\* What the loop publishes when get_next_mcq returned next_mcq: once in the
\* `if next_q.data` branch, and again at the top of the loop after `continue`.
NextQuestionEvents(r, next_mcq) ==
    <<Publish("new_question", r, next_mcq.mcq_id),
      Publish("new_question", r, next_mcq.mcq_id)>>

CompletedStatusReset == "Pending"
CompletedStatus == "Completed"

\* The react_order_input handed to get_next_mcq: the current question's react_order.
NextArgMut(mcq) == mcq.mcq_id
NextArg(mcq) == mcq.react_order

\* After sleep(10): get_next_mcq, then either the next question up to
\* sleep(20), or the end of the battle and of the task.
OrchNextCore(b, r, ok) ==
    /\ Running(b, r)
    /\ runs[b][r].pc = "leaderboard"
    /\ LET react_order == NextArg(runs[b][r].current[1])
           next_q == get_next_mcq(b, react_order)
           fetched == <<E("store", "get_next_mcq", r, react_order)>>
       IN \/ Abort(b, r, <<>>, "get_next_mcq")
          \/ /\ next_q # <<>>
             /\ runs' = [runs EXCEPT ![b][r] =
                            [@ EXCEPT !.pc = AfterPublish(ok, "question"), !.current = next_q]]
             /\ trace' = [trace EXCEPT ![b] = @ \o fetched \o
                             NextQuestionEvents(r, next_q[1]) \o <<Sleep(r, QuestionSecs)>>]
             /\ UNCHANGED <<status, active_battles, total, grace, requests, faults>>
          \/ /\ next_q = <<>>
             /\ Abort(b, r, fetched, "update_status")
          \/ /\ next_q = <<>>
             /\ status' = [status EXCEPT ![b] = CompletedStatus]
             /\ runs' = [runs EXCEPT ![b][r] = Ended(@, "completed")]
             /\ active_battles' = Finally(active_battles, b)
             /\ trace' = [trace EXCEPT ![b] = @ \o fetched \o
                             <<E("update", CompletedStatus, r, 0),
                               Publish("battle_end", r, 0), DiscardOp(r)>>]
             /\ UNCHANGED <<total, grace, requests, faults>>

OrchNext(b, r) ==
    Started /\ Due(b, r) /\ OrchNextCore(b, r, broadcast_event(net)) /\ Wire(b) /\ Paced(b)

\* ------------------------------------------------------------ environment
\* The process is restarted: the registry and every task are lost.
Killed(run) == IF run.pc = "done" THEN run ELSE Ended(run, "killed")

Restart ==
    /\ Started
    /\ Quiet
    /\ faults < MaxFaults
    /\ \E b \in Battles : trace[b] # <<>>
    /\ active_battles' = {}
    /\ grace' = [b \in Battles |-> 0]
    /\ runs' = [b \in Battles |-> [r \in DOMAIN runs[b] |-> Killed(runs[b][r])]]
    /\ trace' = [b \in Battles |-> Append(trace[b], RestartOp)]
    /\ faults' = faults + 1
    /\ UNCHANGED <<status, total, requests>>

\* Another writer of battle_schedule (the scheduler, an operator) sets the status.
ExternalStatus == {"Pending", "Completed", "active", NoStatus}

ExternalSetStatus(b) ==
    /\ Quiet
    /\ faults < MaxFaults
    /\ \E s \in ExternalStatus \ {status[b]} :
          /\ status' = [status EXCEPT ![b] = s]
          /\ trace' = [trace EXCEPT ![b] = Append(@, ExternalOp(s))]
    /\ faults' = faults + 1
    /\ UNCHANGED <<active_battles, total, grace, runs, requests>>

\* ------------------------------------------------------------ properties
Count(s, P(_)) == Cardinality({i \in DOMAIN s : P(s[i])})
Positions(s, e) == {i \in DOMAIN s : s[i] = e}
Last(s) == s[Len(s)]

\* What the step added to the trace of b.
Added(b) == SubSeq(trace'[b], Len(trace[b]) + 1, Len(trace'[b]))

\* The step is a start_battle call for b / one that read the status.
IsStart(b) == Len(Added(b)) >= 1 /\ Added(b)[1] = Request
ReadStatus(b) == IsStart(b) /\ Len(Added(b)) >= 3 /\ Added(b)[3] = Store("fetch_status", b)

IsPublish(e) == e.op = "publish"
IsSpawn(e) == e.op = "spawn"
IsActiveWrite(e) == e = Update("Active")
IsStop(e) == e.op \in {"discard", "restart"}
IsAccepted(e) == e = Return("accepted")
IsResumeEvent(e) == e = Publish("battle_resume", 0, 0)

ActiveRuns(b) == {r \in DOMAIN runs[b] : runs[b][r].pc # "done"}

\* C1: in every reachable state every battle has at most one run_battle_sequence
\* task that was spawned and has not ended.
C1_AtMostOneRun == \A b \in Battles : Cardinality(ActiveRuns(b)) <= 1

\* A second run of a battle is active after the first one ended.
C1_Witness == \E b \in Battles : Len(runs[b]) = 2 /\ ActiveRuns(b) = {2}

\* C2: start requests for a Pending, unregistered battle that all arrive before
\* any run of the battle has ended (in particular during the grace window of the
\* first) write status Active at most once and spawn at most one run; once such a
\* request was accepted and no call is left in its grace window, exactly one
\* status write and exactly one spawn have happened.
C2_Idempotent ==
    \A b \in Battles :
        Count(trace[b], IsStop) = 0 =>
            /\ Count(trace[b], IsActiveWrite) <= 1
            /\ Count(trace[b], IsSpawn) <= 1
            /\ (grace[b] = 0 /\ Count(trace[b], IsAccepted) > 0) =>
                  /\ Count(trace[b], IsActiveWrite) = 1
                  /\ Count(trace[b], IsSpawn) = 1

\* Two requests for one battle, the second inside the grace window of the first,
\* both accepted, the grace window over.
C2_Witness ==
    \E b \in Battles :
        /\ Count(trace[b], IsStop) = 0
        /\ grace[b] = 0
        /\ Count(trace[b], IsAccepted) = 2
        /\ \E i \in Positions(trace[b], Publish("battle_resume", 0, 0)) :
              \E j \in Positions(trace[b], Publish("battle_start", 0, 0)) : i < j

\* C3: a start request that reads status Active for a battle not in the registry
\* registers it, spawns exactly one run, publishes battle_resume exactly once,
\* leaves the status Active and returns accepted.
C3_Step(b) ==
    (ReadStatus(b) /\ status[b] = "Active" /\ b \notin active_battles) =>
        /\ active_battles' = active_battles \cup {b}
        /\ Len(runs'[b]) = Len(runs[b]) + 1
        /\ SubSeq(runs'[b], 1, Len(runs[b])) = runs[b]
        /\ Last(runs'[b]).pc = "spawned"
        /\ Count(Added(b), IsSpawn) = 1
        /\ Count(Added(b), IsResumeEvent) = 1
        /\ Count(Added(b), IsPublish) = 1
        /\ status'[b] = "Active"
        /\ Last(Added(b)) = Return("accepted")

C3_ZombieRepair == [][\A b \in Battles : C3_Step(b)]_vars

\* A zombie repair has just returned: the run it spawned has not started.
C3_Witness ==
    \E b \in Battles :
        /\ Len(trace[b]) > 4
        /\ SubSeq(trace[b], Len(trace[b]) - 3, Len(trace[b])) =
              <<RegisterOp, SpawnOp(Len(runs[b])), Publish("battle_resume", 0, 0),
                Return("accepted")>>
        /\ Last(runs[b]).pc = "spawned"
        /\ b \in active_battles

\* C4: a start request that reads status Completed returns accepted=false and
\* changes nothing: status, registry, runs and suspended calls stay as they are
\* and nothing is published, whether or not the battle is in the registry.
C4_Step(b) ==
    (ReadStatus(b) /\ status[b] = "Completed") =>
        /\ Added(b) = Prelude(b) \o <<Return("rejected")>>
        /\ UNCHANGED <<status, active_battles, runs, grace>>

C4_Rejection == [][\A b \in Battles : C4_Step(b)]_vars

\* A request was rejected while the battle was in the registry.
C4_Witness ==
    \E b \in Battles :
        /\ trace[b] # <<>>
        /\ Last(trace[b]) = Return("rejected")
        /\ b \in active_battles
        /\ status[b] = "Completed"

\* C5: a start request that reads status Active for a battle in the registry
\* publishes battle_resume, returns accepted and leaves status, registry and
\* runs unchanged.
C5_Step(b) ==
    (ReadStatus(b) /\ status[b] = "Active" /\ b \in active_battles) =>
        /\ Added(b) = Prelude(b) \o <<Publish("battle_resume", 0, 0), Return("accepted")>>
        /\ UNCHANGED <<status, active_battles, runs, grace>>

C5_Resume == [][\A b \in Battles : C5_Step(b)]_vars

\* A resume request returned while a run of the battle is in its loop.
C5_Witness ==
    \E b \in Battles :
        /\ Len(trace[b]) > 2
        /\ SubSeq(trace[b], Len(trace[b]) - 1, Len(trace[b])) =
              <<Publish("battle_resume", 0, 0), Return("accepted")>>
        /\ \E r \in ActiveRuns(b) : runs[b][r].pc = "stats"

\* Positions of the publishes of event ev by run r.
Published(tr, ev, r) == {i \in DOMAIN tr : tr[i].op = "publish" /\ tr[i].a = ev /\ tr[i].run = r}

\* C6: a start request that reads a status that is neither Active nor Completed
\* (compared as the code compares it, in lower case) for a battle not in the
\* registry, and whose status write succeeds, does in this order: write status
\* Active, register, publish battle_start_pending, sleep 5 s; when the sleep is
\* over: publish battle_start, spawn the run, return accepted.  Every
\* new_question of a run spawned that way comes after that battle_start.
C6_Enter(b) ==
    ( /\ ReadStatus(b)
      /\ Lower(status[b]) \notin {"active", "completed"}
      /\ b \notin active_battles
      /\ Len(Added(b)) >= 4
      /\ Added(b)[4].op # "raise" ) =>
        /\ Added(b) = Prelude(b) \o
              <<Update("Active"), RegisterOp, Publish("battle_start_pending", 0, 0),
                Sleep(0, GraceSecs)>>
        /\ status' = [status EXCEPT ![b] = "Active"]
        /\ active_battles' = active_battles \cup {b}
        /\ grace' = [grace EXCEPT ![b] = @ + 1]
        /\ runs' = runs

C6_Launch(b) ==
    (grace'[b] < grace[b] /\ Added(b) # <<RestartOp>>) =>
        /\ grace' = [grace EXCEPT ![b] = @ - 1]
        /\ Len(runs'[b]) = Len(runs[b]) + 1
        /\ Last(runs'[b]).pc = "spawned"
        /\ Added(b) = <<Publish("battle_start", 0, 0), SpawnOp(Len(runs'[b])),
                        Return("accepted")>>
        /\ UNCHANGED <<status, active_battles>>

C6_Order ==
    \A b \in Battles :
        /\ Cardinality(Published(trace[b], "battle_start", 0)) <=
              Cardinality(Published(trace[b], "battle_start_pending", 0))
        /\ \A j \in Published(trace[b], "battle_start", 0) :
              /\ \E i \in Published(trace[b], "battle_start_pending", 0) :
                    i < j /\ trace[b][i + 1] = Sleep(0, GraceSecs)
              /\ \A q \in Published(trace[b], "new_question", trace[b][j + 1].run) : j < q

C6_FreshStart == [][(\A b \in Battles : C6_Enter(b) /\ C6_Launch(b)) /\ C6_Order']_vars

\* A battle whose status another writer had cleared was started afresh and the
\* spawned run has published its first question.
C6_Witness ==
    \E b \in Battles :
        /\ trace[b] # <<>>
        /\ trace[b][1] = ExternalOp(NoStatus)
        /\ Published(trace[b], "battle_start", 0) # {}
        /\ Published(trace[b], "new_question", 1) # {}

\* C7: a start request that reads status Pending for a battle that is in the
\* registry behaves as a resume: it changes neither status nor registry, spawns
\* nothing, suspends in no grace window and publishes neither
\* battle_start_pending nor battle_start.
C7_Step(b) ==
    (ReadStatus(b) /\ status[b] = "Pending" /\ b \in active_battles) =>
        /\ UNCHANGED <<status, active_battles, runs, grace>>
        /\ Published(Added(b), "battle_start_pending", 0) = {}
        /\ Published(Added(b), "battle_start", 0) = {}

C7_PendingRegisteredResumes == [][\A b \in Battles : C7_Step(b)]_vars

\* C8: in the step in which a run of b ends (completion, no first question, a store
\* failure at any step), b is removed from the registry.
C8_Step(b) ==
    \A r \in DOMAIN runs[b] :
        (runs[b][r].pc # "done" /\ runs'[b][r].pc = "done") =>
            /\ b \notin active_battles'
            /\ Last(Added(b)) \in {DiscardOp(r), RestartOp}

C8_RegistryClean == [][\A b \in Battles : C8_Step(b)]_vars

\* A run was aborted by a store failure while on its second question.
C8_Witness ==
    \E b \in Battles :
        /\ Len(runs[b]) = 1
        /\ runs[b][1].end = "aborted"
        /\ runs[b][1].current # <<>>
        /\ runs[b][1].current[1].react_order = ReactOrder(2)
        /\ b \notin active_battles

\* C9: a run that went through all K questions of its battle without a store
\* failure has published exactly K new_question events.
C9_NewQuestionCount ==
    \A b \in Battles : \A r \in DOMAIN runs[b] :
        runs[b][r].end = "completed" =>
            Cardinality(Published(trace[b], "new_question", r)) = total[b]

\* C10: a run that went through all K questions of its battle without a store
\* failure has published exactly K show_stats and K update_leaderboard events,
\* one of each for every question, each show_stats carrying the statistics
\* fetched for the question published last.
C10_StatsAndLeaderboard ==
    \A b \in Battles : \A r \in DOMAIN runs[b] :
        runs[b][r].end = "completed" =>
            LET tr == trace[b]
                stats == Published(tr, "show_stats", r)
                leads == Published(tr, "update_leaderboard", r)
                asked == Published(tr, "new_question", r)
            IN /\ Cardinality(stats) = total[b]
               /\ Cardinality(leads) = total[b]
               /\ \A i \in 1..total[b] :
                     /\ Cardinality({p \in stats : tr[p].n = McqId(b, i)}) = 1
                     /\ Cardinality({p \in leads : tr[p].n = McqId(b, i)}) = 1
               /\ \A p \in stats :
                     /\ tr[p - 1] = E("store", "get_battle_stats", r, tr[p].n)
                     /\ \E q \in asked :
                           /\ q < p
                           /\ tr[q].n = tr[p].n
                           /\ \A q2 \in asked : q2 < p => q2 <= q
               /\ \A p \in leads :
                     \E s1 \in stats : s1 < p /\ tr[s1].n = tr[p].n

\* A run has completed a battle of MaxK questions.
C10_Witness ==
    \E b \in Battles : \E r \in DOMAIN runs[b] :
        /\ runs[b][r].end = "completed"
        /\ total[b] = MaxK
        /\ Cardinality(Published(trace[b], "show_stats", r)) = MaxK

\* C11: a run over K >= 1 questions in which no store call fails publishes
\* exactly one battle_end and writes status Completed exactly once, and it does
\* both only right after get_next_mcq, asked with the react_order of the K-th
\* question, returned nothing; a run ends for lack of questions only when K = 0.
C11_SingleEnd ==
    \A b \in Battles : \A r \in DOMAIN runs[b] :
        /\ runs[b][r].end = "noquestions" => total[b] = 0
        /\ runs[b][r].end = "completed" =>
              LET tr == trace[b]
                  ends == Published(tr, "battle_end", r)
                  writes == {i \in DOMAIN tr : tr[i] = E("update", "Completed", r, 0)}
              IN /\ total[b] >= 1
                 /\ Cardinality(ends) = 1
                 /\ Cardinality(writes) = 1
                 /\ \A i \in writes :
                       /\ i > 1
                       /\ tr[i - 1] = E("store", "get_next_mcq", r, ReactOrder(total[b]))
                       /\ get_next_mcq(b, ReactOrder(total[b])) = <<>>
                       /\ i + 1 \in ends
                 /\ status[b] = "Completed"

\* A run has completed a battle of MaxK questions: Completed written, battle_end out.
C11_Witness ==
    \E b \in Battles : \E r \in DOMAIN runs[b] :
        /\ total[b] = MaxK
        /\ runs[b][r].end = "completed"
        /\ Cardinality(Published(trace[b], "battle_end", r)) = 1
        /\ status[b] = "Completed"

\* C12: no step of the program moves the status of a battle away from Completed,
\* whatever start_battle calls, orchestrator steps and restarts follow, and no
\* step moves it from Active back to Pending.
C12_Step(b) ==
    /\ status[b] = "Completed" => status'[b] = "Completed"
    /\ status[b] = "Active" => status'[b] # "Pending"

C12_NoRevert == [][\A b \in Battles : C12_Step(b)]_vars

\* A battle completed, the process was restarted, and a start_battle call that
\* came afterwards was answered: the status is still Completed.
C12_Witness ==
    \E b \in Battles :
        /\ status[b] = "Completed"
        /\ trace[b] # <<>>
        /\ Last(trace[b]) = Return("rejected")
        /\ \E i, j \in DOMAIN trace[b] :
              /\ i < j
              /\ trace[b][i].op = "update"
              /\ trace[b][i].a = "Completed"
              /\ trace[b][j] = RestartOp

\* C13: the status of a battle is written Active only by a start_battle call
\* that took the fresh-start branch, and Completed only by a run in the step in
\* which its get_next_mcq returned nothing; a run that is aborted by a store
\* failure leaves the status as it was, Active, and publishes no battle_end.
IsCompletedWrite(e) == e.op = "update" /\ e.a = "Completed"

C13_Step(b) ==
    /\ (Count(Added(b), IsActiveWrite) > 0 \/ (status'[b] = "Active" /\ status[b] # "Active")) =>
          /\ ReadStatus(b)
          /\ Decide(status[b], b, active_battles) = "fresh"
          /\ Count(Added(b), IsActiveWrite) = 1
    /\ (Count(Added(b), IsCompletedWrite) > 0
           \/ (status'[b] = "Completed" /\ status[b] # "Completed")) =>
          \E r \in DOMAIN runs[b] :
              /\ Running(b, r)
              /\ runs[b][r].pc = "leaderboard"
              /\ get_next_mcq(b, runs[b][r].current[1].react_order) = <<>>
              /\ Added(b) = <<E("store", "get_next_mcq", r, runs[b][r].current[1].react_order),
                              E("update", "Completed", r, 0),
                              Publish("battle_end", r, 0), DiscardOp(r)>>
    /\ \A r \in DOMAIN runs[b] :
          (runs[b][r].end = "none" /\ runs'[b][r].end = "aborted") =>
              /\ status'[b] = status[b]
              /\ status[b] = "Active"
              /\ Published(trace'[b], "battle_end", r) = {}

C13_StatusWriters == [][\A b \in Battles : C13_Step(b)]_vars

\* A run was aborted by a store failure after its first question went out: the
\* status is still Active and the run has published no battle_end.
C13_Witness ==
    \E b \in Battles : \E r \in DOMAIN runs[b] :
        /\ runs[b][r].end = "aborted"
        /\ status[b] = "Active"
        /\ Published(trace[b], "new_question", r) # {}
        /\ Published(trace[b], "battle_end", r) = {}

\* C14: a broadcast that returns false changes nothing else. Whatever the
\* realtime endpoint answers, every step of the program changes the status, the
\* registry, the runs, the store calls made and the results returned exactly
\* as the same step does when every broadcast returns true.
AllPublishesOk(b) ==
    \/ StartFails(b)
    \/ StartCompleted(b)
    \/ StartResumeCore(b, TRUE)
    \/ StartZombieCore(b, TRUE)
    \/ StartFreshCore(b, TRUE)
    \/ StartFreshLaunchCore(b, TRUE)
    \/ \E r \in RunIds : OrchStartCore(b, r, TRUE)
    \/ \E r \in RunIds : OrchStatsCore(b, r, TRUE)
    \/ \E r \in RunIds : OrchLeaderboardCore(b, r, TRUE)
    \/ \E r \in RunIds : OrchNextCore(b, r, TRUE)

C14_PublishFailureNonFatal == [][Restart \/ \E b \in Battles : AllPublishesOk(b)]_corevars

\* A run completed its battle although every broadcast made so far, the six of
\* the fresh start and the run, returned false.
C14_Witness ==
    \E b \in Battles : \E r \in DOMAIN runs[b] :
        /\ runs[b][r].end = "completed"
        /\ status[b] = "Completed"
        /\ b \notin active_battles
        /\ ~wire.returned
        /\ wire.failed = Cardinality({i \in DOMAIN trace[b] : IsPublish(trace[b][i])})
        /\ wire.failed >= 6

\* C15: broadcast_event returns true only when the realtime endpoint answered
\* the call with a success status, and false for every transport error, timeout
\* and non-success status.
SuccessStatus(code) == 200 <= code /\ code < 300

C15_Step(b) ==
    Sent(b) > 0 =>
        (wire'.returned <=> (net.kind = "response" /\ SuccessStatus(net.status_code)))

C15_PublishResult == [][\A b \in Battles : C15_Step(b)]_vars

\* C16: every start_battle call is answered with a structured result, accepted
\* or rejected; a store call that fails inside it never comes out as an
\* exception or as an error response.
C16_StructuredResult ==
    \A b \in Battles : \A i \in DOMAIN trace[b] :
        trace[b][i].op = "return" => trace[b][i].a \in {"accepted", "rejected"}

\* C17: when a store call inside the loop fails, the run ends in that step:
\* it makes no further store call (the failed one is not repeated) and
\* publishes nothing more, then or later; the runs, status, registry entry and
\* events of every other battle are left as they were.
IsRaise(e) == e.op = "raise"

C17_Step(b) ==
    (~IsStart(b) /\ Count(Added(b), IsRaise) > 0) =>
        \E r \in DOMAIN runs[b] :
            /\ Running(b, r)
            /\ runs'[b] = [runs[b] EXCEPT ![r] = [@ EXCEPT !.pc = "done", !.end = "aborted"]]
            /\ Count(Added(b), IsRaise) = 1
            /\ Len(Added(b)) >= 2
            /\ IsRaise(Added(b)[Len(Added(b)) - 1])
            /\ Last(Added(b)) = DiscardOp(r)
            /\ Count(Added(b), IsPublish) = 0
            /\ b \notin active_battles'
            /\ \A c \in Battles \ {b} :
                  /\ runs'[c] = runs[c]
                  /\ trace'[c] = trace[c]
                  /\ status'[c] = status[c]
                  /\ grace'[c] = grace[c]
                  /\ c \in active_battles' <=> c \in active_battles

\* A run that was aborted adds nothing to the trace in any later step.
C17_Silent(b) ==
    \A r \in DOMAIN runs[b] :
        runs[b][r].end = "aborted" =>
            \A i \in DOMAIN Added(b) : Added(b)[i].run # r

C17_FailFast == [][\A b \in Battles : C17_Step(b) /\ C17_Silent(b)]_vars

\* The run of one battle was aborted by a store failure on its first question
\* and left the registry; the run of the other battle completed.
C17_Witness ==
    \E b, c \in Battles :
        /\ b # c
        /\ \E r \in DOMAIN runs[b] :
              /\ runs[b][r].end = "aborted"
              /\ Published(trace[b], "new_question", r) # {}
              /\ Last(trace[b]) = DiscardOp(r)
        /\ b \notin active_battles
        /\ \E r \in DOMAIN runs[c] : runs[c][r].end = "completed"

\* C18: the events of a run come in order. The start_battle call that spawned
\* the run has published battle_start_pending and then battle_start, or
\* battle_resume, before the run's first new_question; the run itself then
\* publishes new_question, show_stats, update_leaderboard once per question, in
\* that order, and battle_end last. start_battle calls that arrive during the
\* run do not disturb this order.
RunEvents(b, r) == SelectSeq(trace[b], LAMBDA e : e.op = "publish" /\ e.run = r)

PhaseEvent(k) ==
    CASE k = 0 -> "new_question"
      [] k = 1 -> "show_stats"
      [] k = 2 -> "update_leaderboard"

\* The events of a full run over the questions of b.
EventsInOrder(b, r) ==
    [j \in 1..(3 * total[b] + 1) |->
        IF j = 3 * total[b] + 1 THEN Publish("battle_end", r, 0)
        ELSE Publish(PhaseEvent((j - 1) % 3), r, McqId(b, ((j - 1) \div 3) + 1))]

IsPrefix(s, t) == Len(s) <= Len(t) /\ \A i \in DOMAIN s : s[i] = t[i]

C18_EventOrder ==
    \A b \in Battles : \A r \in DOMAIN runs[b] :
        /\ IsPrefix(RunEvents(b, r), EventsInOrder(b, r))
        /\ \A q \in Published(trace[b], "new_question", r) :
              \E i \in 1..(q - 1) :
                  \/ trace[b][i] = Publish("battle_resume", 0, 0)
                  \/ /\ trace[b][i] = Publish("battle_start", 0, 0)
                     /\ \E j \in 1..(i - 1) : trace[b][j] = Publish("battle_start_pending", 0, 0)

\* C19: whenever a battle is in the registry, a run_battle_sequence task for
\* it is running (spawned and not ended), and this also holds between the
\* registration and the spawn of a fresh start or a zombie repair.
C19_RegisteredHasRun ==
    \A b \in Battles : b \in active_battles => ActiveRuns(b) # {}

\* C19, amended: whenever a battle is in the registry, either a
\* run_battle_sequence task for it is spawned and not ended, or a fresh
\* start_battle call for it is in its grace sleep and will spawn the task when
\* it wakes.
C19_RegisteredHasRunOrGrace ==
    \A b \in Battles : b \in active_battles => (ActiveRuns(b) # {} \/ grace[b] > 0)

\* A fresh start has registered the battle and sleeps: no task exists yet.
C19_Witness ==
    \E b \in Battles :
        /\ b \in active_battles
        /\ grace[b] > 0
        /\ ActiveRuns(b) = {}
        /\ Last(trace[b]) = Sleep(0, GraceSecs)

\* C20: when the signing secret or the service key is missing from the
\* environment, the process does not come up: no start_battle call is ever
\* taken and no broadcast is ever sent, with a substitute token or otherwise.
C20_ConfigFatal ==
    (~config.jwt_secret \/ ~config.service_key) =>
        /\ \A b \in Battles : \A i \in DOMAIN trace[b] :
              /\ trace[b][i] # Return("accepted")
              /\ ~IsPublish(trace[b][i])
        /\ wire.token = NoToken

\* C21: every broadcast call sends as its bearer token a token minted during
\* that call, with role service_role, audience realtime and an expiry at most
\* 60 seconds after minting; never a token of an earlier call, never the
\* long-lived service key.
C21_Step(b) ==
    Sent(b) > 0 =>
        /\ wire'.token.kind = "jwt"
        /\ wire'.token.role = "service_role"
        /\ wire'.token.aud = "realtime"
        /\ wire'.token.ttl <= 60
        /\ wire'.token.minted > wire.calls
        /\ wire'.token.minted <= wire'.calls

C21_FreshToken == [][\A b \in Battles : C21_Step(b)]_vars

\* C22: every broadcast call posts exactly one message, in the envelope
\* {messages: [{topic: "battle:" + b, event: "broadcast", payload: {type: t,
\* data: p}}]} with t the event type and p the payload it was called with.
LastPublish(b) ==
    LET sent == {i \in DOMAIN Added(b) : IsPublish(Added(b)[i])}
    IN Added(b)[CHOOSE i \in sent : \A j \in sent : j <= i]

C22_Step(b) ==
    Sent(b) > 0 =>
        /\ outbox'[b] =
              [messages |-> <<[topic |-> <<"battle:", b>>,
                               event |-> "broadcast",
                               payload |-> [type |-> LastPublish(b).a,
                                            data |-> LastPublish(b).n]]>>]
        /\ Len(outbox'[b].messages) = 1
        /\ wire'.calls = wire.calls + Sent(b)
        /\ \A c \in Battles \ {b} : outbox'[c] = outbox[c]

C22_Envelope == [][\A b \in Battles : C22_Step(b)]_vars

\* The last broadcast for a battle was new_question for its second question.
C22_Witness ==
    \E b \in Battles :
        /\ outbox[b].messages # <<>>
        /\ outbox[b].messages[1].topic = <<"battle:", b>>
        /\ outbox[b].messages[1].payload = [type |-> "new_question", data |-> McqId(b, 2)]

\* C23: a run that has published battle_end has, before that, written the
\* status Completed; this for a battle of any number of questions, also one
\* whose get_first_mcq returns nothing.
C23_EndMeansCompleted ==
    \A b \in Battles : \A r \in DOMAIN runs[b] :
        \A p \in Published(trace[b], "battle_end", r) :
            \E i \in 1..(p - 1) : trace[b][i] = E("update", "Completed", r, 0)

\* C24: recovery is by zombie repair only. While a battle is Active and not
\* registered (its run was aborted, or the process was restarted) no run of it
\* exists until a start_battle call arrives; that call takes the zombie branch;
\* the run it spawns starts from the first question of the battle; and when
\* nothing fails after that, the battle reaches Completed.
ZombieSpawned(b, r) ==
    \E i \in DOMAIN trace[b] :
        /\ trace[b][i] = SpawnOp(r)
        /\ i > 1
        /\ trace[b][i - 1] = RegisterOp

C24_Step(b) ==
    (status[b] = "Active" /\ b \notin active_battles /\ grace[b] = 0) =>
        /\ ActiveRuns(b) = {}
        /\ Len(runs'[b]) > Len(runs[b]) =>
              Added(b) = Prelude(b) \o <<RegisterOp, SpawnOp(Len(runs[b]) + 1),
                                         Publish("battle_resume", 0, 0), Return("accepted")>>
        /\ IsStart(b) /\ ReadStatus(b) => Len(runs'[b]) = Len(runs[b]) + 1

C24_Recovered(b) ==
    \A r \in DOMAIN runs[b] :
        ZombieSpawned(b, r) =>
            /\ \A q \in Published(trace[b], "new_question", r) :
                  (\A q2 \in Published(trace[b], "new_question", r) : q <= q2) =>
                      /\ trace[b][q].n = McqId(b, 1)
                      /\ trace[b][q - 1] = E("store", "get_first_mcq", r, b)
            /\ runs[b][r].end \in {"completed", "noquestions"} => status[b] = "Completed"

C24_ZombieRecovery == [][\A b \in Battles : C24_Step(b) /\ C24_Recovered(b)']_vars

\* C25: under fair scheduling every spawned run ends, completed or aborted,
\* and the battle leaves the registry; every get_next_mcq call is made with
\* the react_order of the question published last, and within a run no
\* question is published twice and none is skipped.
C25_Shown ==
    \A b \in Battles : \A r \in DOMAIN runs[b] :
        LET tr == trace[b]
            asked == Published(tr, "new_question", r)
        IN /\ \A i \in 1..total[b] :
                 /\ Cardinality({p \in asked : tr[p].n = McqId(b, i)}) <= 1
                 /\ (i > 1 /\ \E p \in asked : tr[p].n = McqId(b, i)) =>
                       \E p \in asked : tr[p].n = McqId(b, i - 1)
           /\ \A f \in DOMAIN tr :
                 (tr[f].op = "store" /\ tr[f].a = "get_next_mcq" /\ tr[f].run = r) =>
                     \E q \in asked :
                         /\ q < f
                         /\ \A q2 \in asked : q2 < f => q2 <= q
                         /\ \E i \in 1..total[b] :
                               tr[q].n = McqId(b, i) /\ tr[f].n = ReactOrder(i)

RunLive(b, r) == IF r \in DOMAIN runs[b] THEN runs[b][r].pc # "done" ELSE FALSE
RunOver(b, r) ==
    IF r \in DOMAIN runs[b]
    THEN runs[b][r].end \in {"completed", "noquestions", "aborted", "killed"}
    ELSE FALSE

C25_Ends ==
    \A b \in Battles :
        /\ (b \in active_battles) ~> (b \notin active_battles)
        /\ \A r \in RunIds : RunLive(b, r) ~> RunOver(b, r)

C25_Termination == []C25_Shown /\ C25_Ends

\* C26: phase pacing on a discrete clock. For every question of a run,
\* show_stats is published no earlier than 20 seconds after the question's
\* new_question, update_leaderboard no earlier than 10 seconds after
\* show_stats, and get_next_mcq is called no earlier than 10 seconds after
\* update_leaderboard; and a run whose own wait is over can take its step
\* whatever the runs of other battles are waiting for.
PreviousPublish(b, r) ==
    LET sent == {i \in DOMAIN trace[b] : IsPublish(trace[b][i]) /\ trace[b][i].run = r}
    IN IF sent = {} THEN Request ELSE trace[b][CHOOSE i \in sent : \A j \in sent : j <= i]

C26_Step(b) ==
    \A r \in DOMAIN runs[b] : \A i \in DOMAIN Added(b) :
        LET e == Added(b)[i]
            first == \A j \in 1..(i - 1) : ~(IsPublish(Added(b)[j]) /\ Added(b)[j].run = r)
        IN (e.run = r /\ first) =>
              /\ (IsPublish(e) /\ e.a = "show_stats") =>
                    /\ PreviousPublish(b, r) = Publish("new_question", r, e.n)
                    /\ now - timer[b][r].at >= 20
              /\ (IsPublish(e) /\ e.a = "update_leaderboard") =>
                    /\ PreviousPublish(b, r) = Publish("show_stats", r, e.n)
                    /\ now - timer[b][r].at >= 10
              /\ (e.op = "store" /\ e.a = "get_next_mcq") =>
                    /\ PreviousPublish(b, r).a = "update_leaderboard"
                    /\ now - timer[b][r].at >= 10

C26_Independent ==
    \A b \in Battles : \A r \in RunIds :
        (Running(b, r) /\ now >= timer[b][r].wake) =>
            ENABLED (OrchStart(b, r) \/ OrchStats(b, r) \/ OrchLeaderboard(b, r) \/ OrchNext(b, r))

C26_Pacing == [][(\A b \in Battles : C26_Step(b)) /\ C26_Independent]_vars

\* The run of one battle has published show_stats and sleeps; the run of the
\* other battle, started later, has just published its new_question.
C26_Witness ==
    \E b, c \in Battles : \E r \in DOMAIN runs[b] : \E q \in DOMAIN runs[c] :
        /\ b # c
        /\ PreviousPublish(b, r).a = "show_stats"
        /\ timer[b][r].at < now
        /\ now < timer[b][r].wake
        /\ PreviousPublish(c, q).a = "new_question"
        /\ timer[c][q].at = now

\* The run of b has written Completed and has not yet left the registry.
Completing(b) ==
    \E i \in DOMAIN trace[b] :
        /\ IsCompletedWrite(trace[b][i])
        /\ \A j \in DOMAIN trace[b] : j > i => ~IsStop(trace[b][j])

\* C27: with the status written only by the program, in every reachable state
\* a battle that is in the registry does not have status Pending: its status is
\* Active, or it is Completed and the run that wrote Completed has not yet
\* discarded the battle from the registry.
C27_RegisteredNotPending ==
    \A b \in Battles :
        b \in active_battles =>
            /\ status[b] # "Pending"
            /\ \/ status[b] = "Active"
               \/ status[b] = "Completed" /\ Completing(b)

\* A battle is registered with status Active a second time: a restart emptied
\* the registry during its run and a zombie repair registered it again.
C27_Witness ==
    \E b \in Battles :
        /\ b \in active_battles
        /\ status[b] = "Active"
        /\ Positions(trace[b], RegisterOp) # {}
        /\ \E r \in ActiveRuns(b) : ZombieSpawned(b, r)

\* C28: once a battle has status Completed and the run that completed it has
\* published battle_end, no step publishes an event for the battle and no step
\* spawns a run for it, whatever start_battle calls and restarts follow.
C28_Step(b) ==
    (status[b] = "Completed" /\ \E r \in DOMAIN runs[b] :
                                   /\ runs[b][r].end = "completed"
                                   /\ Published(trace[b], "battle_end", r) # {}) =>
        /\ Sent(b) = 0
        /\ Count(Added(b), IsPublish) = 0
        /\ Count(Added(b), IsSpawn) = 0
        /\ runs'[b] = runs[b]
        /\ b \notin active_battles'
        /\ outbox'[b] = outbox[b]

C28_TerminalSilence == [][\A b \in Battles : C28_Step(b)]_vars

\* A battle was completed and battle_end was its last event; a start_battle
\* call that came afterwards was rejected and nothing was published or spawned.
C28_Witness ==
    \E b \in Battles :
        /\ status[b] = "Completed"
        /\ trace[b] # <<>>
        /\ Last(trace[b]) = Return("rejected")
        /\ ActiveRuns(b) = {}
        /\ b \notin active_battles
        /\ \E i \in DOMAIN trace[b] :
              /\ trace[b][i].op = "publish"
              /\ trace[b][i].a = "battle_end"
              /\ \A j \in DOMAIN trace[b] :
                    j > i => trace[b][j].op \notin {"publish", "spawn"}
              /\ \E j \in DOMAIN trace[b] : j > i /\ trace[b][j] = Request

\* C29: a start_battle call in which a store call raises (the participants
\* fetch, the status fetch or the write of status Active) returns an error,
\* leaves the registry, the status and the runs as they were, spawns nothing
\* and publishes nothing; afterwards the battle is registered only if a run of
\* it is active or a fresh start of it is in its grace sleep.
C29_Step(b) ==
    (IsStart(b) /\ Count(Added(b), IsRaise) > 0) =>
        /\ Last(Added(b)) = Return("error")
        /\ active_battles' = active_battles
        /\ runs' = runs
        /\ status' = status
        /\ grace' = grace
        /\ Sent(b) = 0
        /\ Count(Added(b), IsSpawn) = 0
        /\ outbox' = outbox
        /\ b \in active_battles' => (ActiveRuns(b)' # {} \/ grace'[b] > 0)

C29_FailedStart == [][\A b \in Battles : C29_Step(b)]_vars

\* The write of status Active raised in a fresh start: the call returned an
\* error, the battle is Pending and not registered, and nothing was published.
C29_Witness ==
    \E b \in Battles :
        /\ Len(trace[b]) >= 2
        /\ Last(trace[b]) = Return("error")
        /\ trace[b][Len(trace[b]) - 1] = Raise("update_status")
        /\ b \notin active_battles
        /\ status[b] = "Pending"
        /\ ActiveRuns(b) = {}
        /\ Count(trace[b], IsPublish) = 0

IsStartPending(e) == e = Publish("battle_start_pending", 0, 0)
IsBattleStart(e) == e = Publish("battle_start", 0, 0)

\* A step of the program for battle b, as opposed to a restart of the process.
OperationOn(b) == Added(b) # <<>> /\ Last(Added(b)) # RestartOp

C30_Step(b) ==
    /\ Count(trace[b], IsStartPending) + Count(Added(b), IsStartPending) <= 1
    /\ Count(trace[b], IsBattleStart) + Count(Added(b), IsBattleStart) <= 1
    /\ OperationOn(b) =>
          \A c \in Battles \ {b} :
              /\ status'[c] = status[c]
              /\ (c \in active_battles') = (c \in active_battles)

\* C30: with the status written only by the program, over the whole life of a
\* battle (start_battle calls, aborted runs, zombie repairs, restarts)
\* battle_start_pending and battle_start are each published at most once, and
\* no step for the battle changes the status or the registry membership of
\* another battle.
C30_StartOnce == [][\A b \in Battles : C30_Step(b)]_vars

\* A battle was started afresh and its run ran to the end, both start events
\* sent once, while the other battle, started as well, is still registered and
\* Active.
C30_Witness ==
    \E b, c \in Battles :
        /\ b # c
        /\ Count(trace[b], IsStartPending) = 1
        /\ Count(trace[b], IsBattleStart) = 1
        /\ \E r \in DOMAIN runs[b] : runs[b][r].end = "completed"
        /\ status[b] = "Completed"
        /\ c \in active_battles
        /\ status[c] = "Active"
        /\ Count(trace[c], IsStartPending) = 1

\* ---------------------------------------------------------- specification
Init ==
    /\ status = [b \in Battles |-> "Pending"]
    /\ active_battles = {}
    /\ total \in [Battles -> 0..MaxK]
    /\ grace = [b \in Battles |-> 0]
    /\ runs = [b \in Battles |-> <<>>]
    /\ trace = [b \in Battles |-> <<>>]
    /\ requests = 0
    /\ faults = 0
    /\ config = [service_key |-> TRUE, jwt_secret |-> TRUE]
    /\ net = Response(200)
    /\ wire = [returned |-> TRUE, token |-> NoToken, calls |-> 0, failed |-> 0]
    /\ outbox = [b \in Battles |-> NoBody]
    /\ now = Forever
    /\ timer = [b \in Battles |-> [r \in TaskIds |-> [wake |-> 0, at |-> 0]]]

Program ==
    \E b \in Battles :
        \/ StartFails(b)
        \/ StartResume(b)
        \/ StartZombie(b)
        \/ StartCompleted(b)
        \/ StartFresh(b)
        \/ StartFreshLaunch(b)
        \/ \E r \in RunIds : OrchStart(b, r)
        \/ \E r \in RunIds : OrchStats(b, r)
        \/ \E r \in RunIds : OrchLeaderboard(b, r)
        \/ \E r \in RunIds : OrchNext(b, r)

Step == Program \/ Restart

NextExt == Program \/ Restart \/ \E b \in Battles : ExternalSetStatus(b)

\* The program alone (status written only by this program).
Spec == Init /\ [][Step]_vars

\* The program with other writers of the status row.
InitExt == Init /\ \A b \in Battles : total[b] <= MaxKExt

SpecExt == InitExt /\ [][NextExt]_vars

\* The event loop runs every task that is ready, and every sleep ends: a
\* start_battle call in its grace sleep and a spawned run are not left waiting
\* for ever.
Fairness ==
    \A b \in Battles :
        /\ WF_vars(StartFreshLaunch(b))
        /\ \A r \in RunIds :
              /\ WF_vars(OrchStart(b, r))
              /\ WF_vars(OrchStats(b, r))
              /\ WF_vars(OrchLeaderboard(b, r))
              /\ WF_vars(OrchNext(b, r))

SpecLive == Init /\ [][Step]_vars /\ Fairness

\* The clock moves on; it is watched only while some task sleeps.
Tick ==
    /\ now # Forever
    /\ now + TickSecs <= MaxTime
    /\ \E b \in Battles : \E r \in TaskIds : now < timer[b][r].wake
    /\ now' = now + TickSecs
    /\ UNCHANGED <<corevars, config, net, wire, outbox, timer>>

\* The program with time tracked from 0.
InitClock ==
    /\ status = [b \in Battles |-> "Pending"]
    /\ active_battles = {}
    /\ total \in [Battles -> 0..MaxKExt]
    /\ grace = [b \in Battles |-> 0]
    /\ runs = [b \in Battles |-> <<>>]
    /\ trace = [b \in Battles |-> <<>>]
    /\ requests = 0
    /\ faults = 0
    /\ config = [service_key |-> TRUE, jwt_secret |-> TRUE]
    /\ net = Response(200)
    /\ wire = [returned |-> TRUE, token |-> NoToken, calls |-> 0, failed |-> 0]
    /\ outbox = [b \in Battles |-> NoBody]
    /\ now = 0
    /\ timer = [b \in Battles |-> [r \in TaskIds |-> [wake |-> 0, at |-> 0]]]

NextClock == Program \/ Tick

SpecClock == InitClock /\ [][NextClock]_vars

\* The realtime endpoint changes how it answers.
NetChange ==
    /\ \E answer \in Responses \ {net} : net' = answer
    /\ UNCHANGED <<corevars, config, wire, outbox, now, timer>>

\* The program with a realtime endpoint that may fail.
InitPub == InitExt

NextPub == Program \/ Restart \/ NetChange

SpecPub == InitPub /\ [][NextPub]_vars

\* The program under every configuration of the two secrets.
InitCfg ==
    /\ status = [b \in Battles |-> "Pending"]
    /\ active_battles = {}
    /\ total \in [Battles -> 0..MaxK]
    /\ grace = [b \in Battles |-> 0]
    /\ runs = [b \in Battles |-> <<>>]
    /\ trace = [b \in Battles |-> <<>>]
    /\ requests = 0
    /\ faults = 0
    /\ config \in [service_key : BOOLEAN, jwt_secret : BOOLEAN]
    /\ net = Response(200)
    /\ wire = [returned |-> TRUE, token |-> NoToken, calls |-> 0, failed |-> 0]
    /\ outbox = [b \in Battles |-> NoBody]
    /\ now = Forever
    /\ timer = [b \in Battles |-> [r \in TaskIds |-> [wake |-> 0, at |-> 0]]]

SpecCfg == InitCfg /\ [][Step]_vars
====
